---------------------------- MODULE Spec2Model ----------------------------
(*************************************************************************)
(* Model of start.py, the bootstrap script of the Mendix Cloud Foundry   *)
(* buildpack: module set-up and imports, logging configuration, the      *)
(* startup marker, and two blocking `find` probes run through            *)
(* subprocess.call.                                                      *)
(*                                                                       *)
(* The script is one sequential process; `pc` is the statement it is     *)
(* about to execute.  The environment contributes: which modules the     *)
(* 'lib' directory holds, whether each fork/exec of a probe succeeds,    *)
(* the level the m2ee logger carries before line 14, and the behaviour   *)
(* of each launched probe (output lines, exit status, whether and when   *)
(* it exits).                                                            *)
(*************************************************************************)
EXTENDS Naturals, Integers, Sequences, FiniteSets

\* ---- bounds -----------------------------------------------------------
\* largest exit status a probe reports (statuses are 0..MaxStatus)
MaxStatus == 2
\* most output lines a probe writes to the inherited stdout
MaxOutput == 2

\* ---- program constants ------------------------------------------------
\* logging.INFO
INFO == 20
\* the severities of the logging module a logger's threshold can be
Levels == {10, 20, 30, 40, 50}

MarkerMsg == "Started Mendix Cloud Foundry Buildpack"

\* variant: the two announcement strings exchanged
AnnouncementsSwapped == << "now scanning /tmp", "scanning for newrelic" >>

\* the messages logged before each probe (lines 18 and 20)
Announcements == << "scanning for newrelic", "now scanning /tmp" >>

\* the argument lists handed to subprocess.call (lines 19 and 21)
Probes == << << "find", "/", "-name", "newrelic" >>, << "find", "/tmp" >> >>

NumProbes == Len(Probes)
ProbeIds == 1..NumProbes

LibModules == {"buildpackutil", "m2ee"}

VARIABLES
    pc,            \* statement about to run, or "done" / "fault"
    sysPath,       \* sys.path
    libHas,        \* modules importable from directory 'lib' (environment)
    launchable,    \* launchable[i]: fork/exec of probe i succeeds (environment)
    level,         \* threshold of the m2ee logger
    setLevelCalls, \* number of setLevel calls made so far
    dropped,       \* log calls filtered out by the threshold
    trace,         \* history: log lines emitted, probes launched, probes exited
    proc,          \* proc[i]: "notstarted" | "running" | "exited"
    status,        \* status[i]: exit status of probe i, -1 while it has none
    out,           \* out[i]: lines probe i wrote to the inherited stdout
    exitCode,      \* exit code of the script, -1 while it runs
    faultAt        \* statement that raised the unhandled exception, "" if none

vars == << pc, sysPath, libHas, launchable, level, setLevelCalls, dropped,
           trace, proc, status, out, exitCode, faultAt >>

\* ---- helpers ----------------------------------------------------------
LogEvent(msg) == [kind |-> "log", probe |-> 0, text |-> msg, args |-> << >>]
LaunchEvent(i) == [kind |-> "launch", probe |-> i, text |-> "", args |-> Probes[i]]
ExitEvent(i) == [kind |-> "exit", probe |-> i, text |-> "", args |-> << >>]

\* `import name` resolves when a directory on sys.path holds the module
Resolvable(name) ==
    \E k \in 1..Len(sysPath) : sysPath[k] = "lib" /\ name \in libHas

\* Logger.info: the record is handled only if INFO passes the threshold
InfoEnabled == INFO >= level

Info(msg) ==
    IF InfoEnabled
      THEN /\ trace' = Append(trace, LogEvent(msg))
           /\ UNCHANGED dropped
      ELSE /\ dropped' = dropped + 1
           /\ UNCHANGED trace

\* an exception nobody catches: traceback, interpreter exits with status 1
Fault(at) ==
    /\ pc' = "fault"
    /\ exitCode' = 1
    /\ faultAt' = at

CallPc(i) == IF i = 1 THEN "call1" ELSE "call2"
WaitPc(i) == IF i = 1 THEN "wait1" ELSE "wait2"
AnnouncePc(i) == IF i = 1 THEN "announce1" ELSE "announce2"
\* the statement after subprocess.call of probe i
AfterProbe(i) == IF i < NumProbes THEN AnnouncePc(i + 1) ELSE "end"

\* ---- initial state ----------------------------------------------------
Init ==
    /\ pc = "setup"
    /\ sysPath = << "" >>
    /\ libHas \in SUBSET LibModules
    /\ launchable \in [ProbeIds -> BOOLEAN]
    /\ level \in Levels
    /\ setLevelCalls = 0
    /\ dropped = 0
    /\ trace = << >>
    /\ proc = [i \in ProbeIds |-> "notstarted"]
    /\ status = [i \in ProbeIds |-> -1]
    /\ out = [i \in ProbeIds |-> 0]
    /\ exitCode = -1
    /\ faultAt = ""

\* ---- the script -------------------------------------------------------
\* lines 2-9: standard-library imports, sys.path.insert(0, 'lib')
Setup ==
    /\ pc = "setup"
    /\ sysPath' = << "lib" >> \o sysPath
    /\ pc' = "import_buildpackutil"
    /\ UNCHANGED << libHas, launchable, level, setLevelCalls, dropped, trace,
                    proc, status, out, exitCode, faultAt >>

\* line 10: import buildpackutil
ImportBuildpackutil ==
    /\ pc = "import_buildpackutil"
    /\ IF Resolvable("buildpackutil")
         THEN pc' = "import_m2ee" /\ UNCHANGED << exitCode, faultAt >>
         ELSE Fault("import_buildpackutil")
    /\ UNCHANGED << sysPath, libHas, launchable, level, setLevelCalls,
                    dropped, trace, proc, status, out >>

\* lines 11-12: from m2ee import M2EE, logger; import logging
ImportM2ee ==
    /\ pc = "import_m2ee"
    /\ IF Resolvable("m2ee")
         THEN pc' = "setLevel" /\ UNCHANGED << exitCode, faultAt >>
         ELSE Fault("import_m2ee")
    /\ UNCHANGED << sysPath, libHas, launchable, level, setLevelCalls,
                    dropped, trace, proc, status, out >>

\* variant: line 14 left out, the logger keeps the threshold it came with
SetLevelMissing ==
    /\ pc = "setLevel"
    /\ pc' = "marker"
    /\ UNCHANGED << sysPath, libHas, launchable, level, setLevelCalls,
                    dropped, trace, proc, status, out, exitCode, faultAt >>

\* variant: line 14 names an attribute that does not exist and raises
SetLevelRaising ==
    /\ pc = "setLevel"
    /\ Fault("setLevel")
    /\ UNCHANGED << sysPath, libHas, launchable, level, setLevelCalls,
                    dropped, trace, proc, status, out >>

\* line 14: logger.setLevel(logging.INFO)
SetLevel ==
    /\ pc = "setLevel"
    /\ level' = INFO
    /\ setLevelCalls' = setLevelCalls + 1
    /\ pc' = "marker"
    /\ UNCHANGED << sysPath, libHas, launchable, dropped, trace, proc,
                    status, out, exitCode, faultAt >>

\* variant: the marker is logged twice
LogMarkerTwice ==
    /\ pc = "marker"
    /\ IF InfoEnabled
         THEN /\ trace' = trace \o << LogEvent(MarkerMsg), LogEvent(MarkerMsg) >>
              /\ UNCHANGED dropped
         ELSE /\ dropped' = dropped + 2
              /\ UNCHANGED trace
    /\ pc' = AnnouncePc(1)
    /\ UNCHANGED << sysPath, libHas, launchable, level, setLevelCalls,
                    proc, status, out, exitCode, faultAt >>

\* line 16: logger.info('Started Mendix Cloud Foundry Buildpack')
LogMarker ==
    /\ pc = "marker"
    /\ Info(MarkerMsg)
    /\ pc' = AnnouncePc(1)
    /\ UNCHANGED << sysPath, libHas, launchable, level, setLevelCalls,
                    proc, status, out, exitCode, faultAt >>

\* variant: the threshold is lowered to DEBUG before each announcement
AnnounceVerbose(i) ==
    /\ pc = AnnouncePc(i)
    /\ level' = 10
    /\ setLevelCalls' = setLevelCalls + 1
    /\ trace' = Append(trace, LogEvent(Announcements[i]))
    /\ pc' = CallPc(i)
    /\ UNCHANGED << sysPath, libHas, launchable, dropped,
                    proc, status, out, exitCode, faultAt >>

\* variant: the announcement reports a non-zero status of the probe before
AnnounceBranching(i) ==
    /\ pc = AnnouncePc(i)
    /\ IF i > 1 /\ status[i - 1] > 0
         THEN Info("previous scan failed")
         ELSE Info(Announcements[i])
    /\ pc' = CallPc(i)
    /\ UNCHANGED << sysPath, libHas, launchable, level, setLevelCalls,
                    proc, status, out, exitCode, faultAt >>

\* lines 18, 20: logger.info(<announcement of probe i>)
Announce(i) ==
    /\ pc = AnnouncePc(i)
    /\ Info(Announcements[i])
    /\ pc' = CallPc(i)
    /\ UNCHANGED << sysPath, libHas, launchable, level, setLevelCalls,
                    proc, status, out, exitCode, faultAt >>

\* variant: subprocess.Popen in place of subprocess.call, nothing waits
CallNoWait(i) ==
    /\ pc = CallPc(i)
    /\ IF launchable[i]
         THEN /\ proc' = [proc EXCEPT ![i] = "running"]
              /\ trace' = Append(trace, LaunchEvent(i))
              /\ pc' = AfterProbe(i)
              /\ UNCHANGED << exitCode, faultAt >>
         ELSE /\ Fault(CallPc(i))
              /\ UNCHANGED << proc, trace >>
    /\ UNCHANGED << sysPath, libHas, launchable, level, setLevelCalls,
                    dropped, status, out >>

\* variant: the OSError of a failed launch is caught and ignored
CallSwallow(i) ==
    /\ pc = CallPc(i)
    /\ IF launchable[i]
         THEN /\ proc' = [proc EXCEPT ![i] = "running"]
              /\ trace' = Append(trace, LaunchEvent(i))
              /\ pc' = WaitPc(i)
         ELSE /\ pc' = AfterProbe(i)
              /\ UNCHANGED << proc, trace >>
    /\ UNCHANGED << sysPath, libHas, launchable, level, setLevelCalls,
                    dropped, status, out, exitCode, faultAt >>

\* lines 19, 21, first half of subprocess.call: Popen forks and execs the
\* command, raising OSError when that fails
Call(i) ==
    /\ pc = CallPc(i)
    /\ IF launchable[i]
         THEN /\ proc' = [proc EXCEPT ![i] = "running"]
              /\ trace' = Append(trace, LaunchEvent(i))
              /\ pc' = WaitPc(i)
              /\ UNCHANGED << exitCode, faultAt >>
         ELSE /\ Fault(CallPc(i))
              /\ UNCHANGED << proc, trace >>
    /\ UNCHANGED << sysPath, libHas, launchable, level, setLevelCalls,
                    dropped, status, out >>

\* variant: subprocess.check_call, a non-zero status raises
WaitReturnChecked(i) ==
    /\ pc = WaitPc(i)
    /\ proc[i] = "exited"
    /\ IF status[i] = 0
         THEN pc' = AfterProbe(i) /\ UNCHANGED << exitCode, faultAt >>
         ELSE Fault(WaitPc(i))
    /\ UNCHANGED << sysPath, libHas, launchable, level, setLevelCalls,
                    dropped, trace, proc, status, out >>

\* variant: the wait gives up on a probe that is still running
WaitReturnTimeout(i) ==
    /\ pc = WaitPc(i)
    /\ proc[i] \in {"running", "exited"}
    /\ pc' = AfterProbe(i)
    /\ UNCHANGED << sysPath, libHas, launchable, level, setLevelCalls,
                    dropped, trace, proc, status, out, exitCode, faultAt >>

\* lines 19, 21, second half of subprocess.call: wait() returns once the
\* child has exited; the returned status is an expression statement's
\* value and is thrown away
WaitReturn(i) ==
    /\ pc = WaitPc(i)
    /\ proc[i] = "exited"
    /\ pc' = AfterProbe(i)
    /\ UNCHANGED << sysPath, libHas, launchable, level, setLevelCalls,
                    dropped, trace, proc, status, out, exitCode, faultAt >>

\* end of file: the interpreter exits with status 0
Exit ==
    /\ pc = "end"
    /\ pc' = "done"
    /\ exitCode' = 0
    /\ UNCHANGED << sysPath, libHas, launchable, level, setLevelCalls,
                    dropped, trace, proc, status, out, faultAt >>

\* ---- the probes (external processes) ----------------------------------
\* a running probe writes a line to the stdout it inherited
ProbeOutput(i) ==
    /\ proc[i] = "running"
    /\ out[i] < MaxOutput
    /\ out' = [out EXCEPT ![i] = out[i] + 1]
    /\ UNCHANGED << pc, sysPath, libHas, launchable, level, setLevelCalls,
                    dropped, trace, proc, status, exitCode, faultAt >>

\* a running probe exits with some status
ProbeExit(i) ==
    /\ proc[i] = "running"
    /\ \E s \in 0..MaxStatus :
          status' = [status EXCEPT ![i] = s]
    /\ proc' = [proc EXCEPT ![i] = "exited"]
    /\ trace' = Append(trace, ExitEvent(i))
    /\ UNCHANGED << pc, sysPath, libHas, launchable, level, setLevelCalls,
                    dropped, out, exitCode, faultAt >>

\* ---- specification ----------------------------------------------------
Sequencer ==
    \/ Setup
    \/ ImportBuildpackutil
    \/ ImportM2ee
    \/ SetLevel
    \/ LogMarker
    \/ \E i \in ProbeIds : Announce(i)
    \/ \E i \in ProbeIds : Call(i)
    \/ \E i \in ProbeIds : WaitReturn(i)
    \/ Exit

Environment ==
    \/ \E i \in ProbeIds : ProbeOutput(i)
    \/ \E i \in ProbeIds : ProbeExit(i)

Next == Sequencer \/ Environment

Spec == Init /\ [][Next]_vars

\* The interpreter always takes the script's next step when it has one; a
\* probe is under no obligation to exit.
FairSpec == Spec /\ WF_vars(Sequencer)

TypeOK ==
    /\ pc \in {"setup", "import_buildpackutil", "import_m2ee", "setLevel",
               "marker", "announce1", "call1", "wait1", "announce2",
               "call2", "wait2", "end", "done", "fault"}
    /\ level \in Levels
    /\ setLevelCalls \in 0..1
    /\ proc \in [ProbeIds -> {"notstarted", "running", "exited"}]
    /\ status \in [ProbeIds -> -1..MaxStatus]
    /\ out \in [ProbeIds -> 0..MaxOutput]
    /\ exitCode \in {-1, 0, 1}

\* ---- vocabulary of the properties -------------------------------------
AllLaunchable == \A i \in ProbeIds : launchable[i]

IsLog(e) == e.kind = "log"
IsLaunch(e) == e.kind = "launch"
IsOwn(e) == e.kind \in {"log", "launch"}

\* what the script itself does, leaving out what the probes do
OwnTrace == SelectSeq(trace, IsOwn)
LogLines == SelectSeq(trace, IsLog)
Launches == SelectSeq(trace, IsLaunch)

IsPrefix(s, t) == Len(s) <= Len(t) /\ s = SubSeq(t, 1, Len(s))

MarkerCount == Cardinality({k \in DOMAIN trace : trace[k] = LogEvent(MarkerMsg)})

\* the events of a run in which nothing faults, in order
ExpectedTrace ==
    << LogEvent(MarkerMsg),
       LogEvent("scanning for newrelic"),
       LaunchEvent(1), ExitEvent(1),
       LogEvent("now scanning /tmp"),
       LaunchEvent(2), ExitEvent(2) >>

\* the sequence (configure logging, marker, probes) has begun
Begun == pc \notin {"setup", "import_buildpackutil", "import_m2ee"}
           /\ faultAt \notin {"import_buildpackutil", "import_m2ee"}

\* line 16 has been executed
PastMarker == Begun /\ pc \notin {"setLevel", "marker"}

\* line 14 has been executed
LoggingConfigured == Begun /\ pc # "setLevel"

\* ---- properties -------------------------------------------------------

\* C1: the startup marker is logged exactly once in a run of the sequence:
\* never more than once, exactly once from line 16 on, every announcement
\* line and every probe launch in the history has the marker before it, and
\* a sequence that has begun does get to log it.
C1_Safe ==
    /\ MarkerCount <= 1
    /\ PastMarker => MarkerCount = 1
    /\ \A k \in DOMAIN trace :
          (trace[k].kind = "launch"
             \/ \E i \in ProbeIds : trace[k] = LogEvent(Announcements[i]))
          => \E j \in 1..(k - 1) : trace[j] = LogEvent(MarkerMsg)
    /\ (\E i \in ProbeIds : proc[i] # "notstarted") => MarkerCount = 1

C1_MarkerOnceFirst ==
    /\ [] C1_Safe
    /\ (pc = "setLevel") ~> (MarkerCount = 1)

C1_Witness ==
    /\ proc[2] = "running"
    /\ MarkerCount = 1
    /\ Len(LogLines) = 3
    /\ LogLines[1] = LogEvent(MarkerMsg)

\* C2: probes run in the declared order and one at a time: two probes are
\* never running together, probe 2 is running or finished only when probe 1
\* has exited, and the launches in the history are a prefix of the list.
C2_ProbesSequential ==
    /\ ~ (proc[1] = "running" /\ proc[2] = "running")
    /\ \A i \in ProbeIds : \A j \in ProbeIds :
          (i < j /\ proc[j] # "notstarted") => proc[i] = "exited"
    /\ IsPrefix(Launches, << LaunchEvent(1), LaunchEvent(2) >>)
    /\ \A i \in ProbeIds :
          (proc[i] = "notstarted") <=> (\A k \in DOMAIN trace : trace[k] # LaunchEvent(i))

C2_Witness ==
    /\ proc[1] = "exited"
    /\ proc[2] = "running"
    /\ Launches = << LaunchEvent(1), LaunchEvent(2) >>

\* C3: when every probe can be launched, a sequence that has begun never
\* faults and ends with exit code 0 whatever the probes' exit statuses are:
\* nothing but the three fixed lines is ever logged, a probe that exited
\* non-zero is followed by the next probe, and once the last probe has
\* exited the script reaches Done with exit code 0.
C3_Safe ==
    (AllLaunchable /\ Begun) =>
        /\ pc # "fault"
        /\ exitCode \in {-1, 0}
        /\ (pc = "done") <=> (exitCode = 0)
        /\ pc = "done" => \A i \in ProbeIds : proc[i] = "exited"
        /\ IsPrefix(LogLines, << LogEvent(MarkerMsg),
                                 LogEvent("scanning for newrelic"),
                                 LogEvent("now scanning /tmp") >>)

C3_ExitStatusIgnored ==
    /\ [] C3_Safe
    /\ (AllLaunchable /\ proc[1] = "exited" /\ status[1] > 0)
          ~> (proc[2] # "notstarted")
    /\ (AllLaunchable /\ proc[2] = "exited" /\ status[2] > 0)
          ~> (pc = "done" /\ exitCode = 0)
    /\ (AllLaunchable /\ proc[2] = "exited")
          ~> (pc = "done" /\ exitCode = 0)

C3_Witness ==
    /\ pc = "done"
    /\ exitCode = 0
    /\ status[1] > 0
    /\ status[2] > 0

\* C4: a probe that cannot be launched ends the run there with an unhandled
\* fault: the exit code is non-zero, the history is exactly what preceded
\* the failing call (marker, earlier announcements and probes, the failing
\* probe's own announcement), the failing probe and every later one were
\* never started, nothing happens after the fault, and a call that cannot
\* launch does lead to the fault.
C4_Safe ==
    /\ \A i \in ProbeIds :
          (pc = "fault" /\ faultAt = CallPc(i)) =>
              /\ ~ launchable[i]
              /\ exitCode = 1
              /\ trace = SubSeq(ExpectedTrace, 1, 3 * (i - 1) + 2)
              /\ \A j \in ProbeIds : j < i => proc[j] = "exited"
              /\ \A j \in ProbeIds : j >= i => proc[j] = "notstarted"
    /\ \A i \in ProbeIds : ~ launchable[i] =>
              \A j \in ProbeIds : j >= i => proc[j] = "notstarted"
    /\ \A i \in ProbeIds : ~ launchable[i] => pc \notin {WaitPc(i), AfterProbe(i), "done"}

C4_LaunchFailureHalts ==
    /\ [] C4_Safe
    /\ [][pc # "fault"]_vars
    /\ \A i \in ProbeIds :
          (pc = CallPc(i) /\ ~ launchable[i]) ~> (pc = "fault" /\ faultAt = CallPc(i))

C4_Witness ==
    /\ pc = "fault"
    /\ faultAt = "call2"
    /\ proc[1] = "exited"
    /\ proc[2] = "notstarted"
    /\ Len(trace) = 5

\* C5: whenever a log call is about to be made the logger's threshold is
\* INFO, so no log call of the sequence is filtered out: every call made so
\* far has its line in the history.
C5_LevelBeforeLog ==
    /\ pc \in {"marker", "announce1", "announce2"} => (level = INFO /\ InfoEnabled)
    /\ dropped = 0
    /\ pc = "announce1" => Len(LogLines) = 1
    /\ pc \in {"call1", "wait1", "announce2"} => Len(LogLines) = 2
    /\ pc \in {"call2", "wait2", "end", "done"} => Len(LogLines) = 3

C5_Witness ==
    /\ pc = "call2"
    /\ level = INFO
    /\ Len(LogLines) = 3
    /\ dropped = 0

\* C6, as stated: every fault is a probe launch failure.
C6_OnlyLaunchFaults ==
    pc = "fault" => faultAt \in {"call1", "call2"}

\* C6, amended: a fault is a probe launch failure or a failed import of
\* buildpackutil or m2ee (the module is not found under 'lib'); set-up,
\* logging configuration, the log calls and the waits never fault, and the
\* exit code is 1 exactly in the fault state.
C6_FaultsOnlyAtImportOrLaunch ==
    /\ pc = "fault" =>
          /\ faultAt \in {"import_buildpackutil", "import_m2ee", "call1", "call2"}
          /\ faultAt = "import_buildpackutil" => "buildpackutil" \notin libHas
          /\ faultAt = "import_m2ee" => "m2ee" \notin libHas
          /\ \A i \in ProbeIds : faultAt = CallPc(i) => ~ launchable[i]
    /\ (pc = "fault") <=> (exitCode = 1)
    /\ (pc = "fault") <=> (faultAt # "")
    /\ (Begun /\ AllLaunchable) => pc # "fault"

C6_Witness ==
    /\ pc = "fault"
    /\ faultAt = "import_m2ee"
    /\ "buildpackutil" \in libHas
    /\ trace = << >>

\* C7: no timeout, no cancellation.  While a probe is running the script
\* sits in that probe's wait and only the probe's exit lets it move; if the
\* probes that are launched all exit and all are launchable, a sequence that
\* has begun reaches Done; if a probe stays running for ever, the script
\* stays in its wait for ever, and neither is the next probe launched nor
\* Done reached.
C7_Blocked ==
    \A i \in ProbeIds :
        proc[i] = "running" =>
            /\ pc = WaitPc(i)
            /\ \A j \in ProbeIds : j > i => proc[j] = "notstarted"
            /\ exitCode = -1

C7_NoTimeout ==
    /\ [] C7_Blocked
    /\ [][\A i \in ProbeIds :
            (pc = WaitPc(i) /\ proc[i] = "running") => pc' = WaitPc(i)]_vars
    /\ (\A i \in ProbeIds : [](proc[i] = "running" => <>(proc[i] = "exited")))
          => []((pc = "setLevel" /\ AllLaunchable) => <>(pc = "done"))
    /\ \A i \in ProbeIds :
          <>[](proc[i] = "running")
             => <>[](/\ pc = WaitPc(i)
                     /\ exitCode = -1
                     /\ \A j \in ProbeIds : j > i => proc[j] = "notstarted")

C7_Witness ==
    /\ pc = "wait2"
    /\ proc[2] = "running"
    /\ out[2] > 0
    /\ proc[1] = "exited"

\* C8: the threshold is written once, by line 14: no setLevel call before
\* it, exactly one after it, INFO from then on, and no other step changes
\* the threshold.
C8_Safe ==
    /\ setLevelCalls <= 1
    /\ LoggingConfigured => (level = INFO /\ setLevelCalls = 1)
    /\ ~ LoggingConfigured => setLevelCalls = 0

C8_LevelWrittenOnce ==
    /\ [] C8_Safe
    /\ [][(level' # level \/ setLevelCalls' # setLevelCalls) => pc = "setLevel"]_vars
    /\ [][LoggingConfigured => level' = INFO]_vars

C8_Witness ==
    /\ pc = "done"
    /\ level = INFO
    /\ setLevelCalls = 1
    /\ \A i \in ProbeIds : proc[i] = "exited"

\* C9: what the script itself does (the lines it logs, the commands it
\* launches with their arguments, its exit code) is the same in every run
\* whose probes are launched and exit: at each statement it is a fixed
\* sequence determined by the statement alone, whatever the probes' exit
\* statuses and output are.
OwnExpected == SelectSeq(ExpectedTrace, IsOwn)

OwnLenAt(p) ==
    CASE p = "setLevel" -> 0
      [] p = "marker" -> 0
      [] p = "announce1" -> 1
      [] p = "call1" -> 2
      [] p = "wait1" -> 3
      [] p = "announce2" -> 3
      [] p = "call2" -> 4
      [] p = "wait2" -> 5
      [] p = "end" -> 5
      [] p = "done" -> 5
      [] OTHER -> 0

C9_TraceIndependentOfResults ==
    (Begun /\ pc # "fault") =>
        /\ OwnTrace = SubSeq(OwnExpected, 1, OwnLenAt(pc))
        /\ pc = "done" => (OwnTrace = OwnExpected /\ exitCode = 0)
        /\ pc # "done" => exitCode = -1

C9_Witness ==
    /\ pc = "done"
    /\ status[1] = 0
    /\ status[2] > 0
    /\ out[1] # out[2]
    /\ OwnTrace = OwnExpected

\* C10: the announcements are interleaved with the probes in a fixed way:
\* the history is always a prefix of marker, announcement 1, launch 1,
\* exit 1, announcement 2, launch 2, exit 2; it is the whole of it at Done;
\* and every launch has its own announcement immediately before it.
C10_EventOrder ==
    /\ IsPrefix(trace, ExpectedTrace)
    /\ pc = "done" => trace = ExpectedTrace
    /\ \A k \in DOMAIN trace : \A i \in ProbeIds :
          trace[k] = LaunchEvent(i) =>
              (k > 1 /\ trace[k - 1] = LogEvent(Announcements[i]))
    /\ \A k \in DOMAIN trace :
          trace[k] = LogEvent("now scanning /tmp") =>
              (k > 1 /\ trace[k - 1] = ExitEvent(1))

C10_Witness ==
    /\ pc = "done"
    /\ Len(trace) = 7
    /\ trace[5] = LogEvent("now scanning /tmp")
    /\ trace[4] = ExitEvent(1)

=============================================================================
